---- MODULE Spec2Model ----
(***************************************************************************)
(* The rate-limited remote client of the face-deduplication service:       *)
(* RateLimiter.acquire and FacePlusPlusManager._make_request_with_retry    *)
(* (services/verification_system/api_manager/faceplusplus_manager.py).     *)
(*                                                                         *)
(* Time is the reading of datetime.now(), in whole ticks of one second.    *)
(* The code only ever uses differences of the clock and a stored           *)
(* timestamp (now - requests[0], requests[0] + time_window - now), so a    *)
(* timestamp is kept as its age, now - timestamp: append(now) appends age  *)
(* 0, and Tick (the clock advancing by one tick) adds 1 to every age.      *)
(* An age beyond the window is kept as time_window + 1 ("expired").        *)
(* A sleeping coroutine holds the ticks left of its asyncio.sleep.         *)
(*                                                                         *)
(* One action is one run of a coroutine from the point where the event     *)
(* loop resumes it to its next suspension (asyncio.sleep): acquire() has   *)
(* no await between reading the clock and appending, and requests.post is  *)
(* a blocking call, so admission, post and response handling are one step. *)
(* The calls run as coroutines of one event loop: while one of them runs,  *)
(* no other is resumed; the clock may advance at any time.                 *)
(*                                                                         *)
(* Spec is the service as the router wires it (one manager and limiter per *)
(* verification call); SpecLimiter is one RateLimiter used by several      *)
(* callers of acquire().                                                   *)
(***************************************************************************)
EXTENDS Integers, Sequences, FiniteSets, TLC

\* ---- bounds of the model ----
\* verification calls (POST /verify) started in all
MaxVerifications == 2
\* operations (detect, search, create, add, get-detail calls) started in all
MaxCalls == 3
\* acquire() calls made in all by the callers of the shared limiter
MaxAcquires == 5
\* max_requests and time_window of the limiter the callers share
SharedRequests == 2
SharedWindow == 2

\* ---- program constants ----
\* RateLimiter(max_requests=10, time_window=1)
ManagerMaxRequests == 10
ManagerTimeWindow == 1
\* self.max_retries = 3, self.base_delay = 2
max_retries == 3
base_delay == 2
\* FaceVerification.__init__ and DBManager.__init__
confidence_threshold == 90
MAX_FACESET_CAPACITY == 1000

\* verification calls running concurrently: the router builds one
\* FaceVerification, hence one FacePlusPlusManager and one RateLimiter, per call
Tasks == {"call1", "call2"}
Limiters == Tasks

\* what requests.post can produce: a transport failure
\* (requests.RequestException) or a response with a status and a body
Statuses == {200, 403, 502}
Bodies == {"result", "concurrency", "error", "malformed"}
TransportFailure == [status |-> 0, body |-> "exception"]
NoResponse == [status |-> 0, body |-> "none"]
Responses == [status : Statuses, body : Bodies] \cup {TransportFailure}

VARIABLES
    max_requests,   \* RateLimiter.max_requests, per limiter
    time_window,    \* RateLimiter.time_window, per limiter
    rate_limiter,   \* FacePlusPlusManager.rate_limiter of each call's manager
    requests,       \* RateLimiter.requests: ages of the queued timestamps
    pc,             \* where each call's _make_request_with_retry stands
    retry_count,    \* local retry_count
    timer,          \* ticks left of the asyncio.sleep a call is suspended in
    response,       \* local response: what the last requests.post produced
    sent,           \* requests posted by the current operation
    delays,         \* backoff delays slept by the current operation, in order
    decode_errors,  \* malformed responses received by the current operation
    raised,         \* status_code of the HTTPException raised, 0 if none
    calls,          \* operations (under SpecLimiter: acquire() calls) started so far
    admitLog,       \* per limiter: ages of the admissions younger than the window
    postLog,        \* ages of all requests posted less than ManagerTimeWindow ago
    waiters,        \* per limiter: calls suspended in acquire(), in arrival order
    admitted,       \* the call the step just taken admitted, "none" otherwise
    waited          \* the call just admitted had been suspended in acquire()

clientVars == <<max_requests, time_window, rate_limiter, requests, pc,
                retry_count, timer, response, sent, delays, decode_errors,
                raised, calls, admitLog, postLog, waiters, admitted, waited>>

\* The verification workflow (FaceVerification), the Face Store (DBManager)
\* and the remote collections
VARIABLES
    metadata,       \* the faceset_metadata file: records id -> face_count, in dict order
    tokens,         \* the face_tokens file: entries face_token -> faceset_id
    remote,         \* Face++: face count of each collection, NoFaceset if absent
    wf,             \* per verification call: where it stands, and its locals
    verifications,  \* verification calls started so far
    issued,         \* face tokens issued by detect so far
    created         \* collections created by create_new_faceset so far

workflowVars == <<metadata, tokens, remote, wf, verifications, issued, created>>

\* _validate_and_process_image on its own (SpecImage)
VARIABLES
    image,          \* the image_data handed to _validate_and_process_image
    validation      \* what it returned, NotValidated before the call

imageVars == <<image, validation>>

vars == <<max_requests, time_window, rate_limiter, requests, pc, retry_count,
          timer, response, sent, delays, decode_errors, raised, calls,
          admitLog, postLog, waiters, admitted, waited,
          metadata, tokens, remote, wf, verifications, issued, created,
          image, validation>>

Min(a, b) == IF a < b THEN a ELSE b
Max(a, b) == IF a > b THEN a ELSE b

RECURSIVE Pow2(_)
Pow2(n) == IF n = 0 THEN 1 ELSE 2 * Pow2(n - 1)

\* ---- RateLimiter ----

\* (a clock read once and never again: the ages never grow)
OlderStale(age, w) == age

\* now - requests[i] after the clock advanced by one tick
Older(age, w) == Min(age + 1, w + 1)

\* while self.requests and (now - self.requests[0]) > timedelta(time_window): popleft()
RECURSIVE Expire(_, _)
Expire(q, w) ==
    IF q # <<>> /\ Head(q) > w THEN Expire(Tail(q), w) ELSE q

\* wait_time = (self.requests[0] + timedelta(seconds=time_window) - now)
WaitTime(q, w) == w - Head(q)

\* acquire() suspends: the window is full and wait_time > 0
MustWait(q, n, w) == Len(q) >= n /\ WaitTime(q, w) > 0

\* ---- _make_request_with_retry ----

\* while retry_count < self.max_retries / if retry_count < self.max_retries
RetriesLeft(rc) == rc < max_retries

\* delay = self.base_delay * (2 ** retry_count)
Backoff(rc) == base_delay * Pow2(rc)

\* (a decode error caught as a RequestException: the malformed response retried)
TransportOrDecodeFailure(r) == r = TransportFailure \/ r.body = "malformed"

\* requests.post raised: except requests.RequestException
IsTransportFailure(r) == r = TransportFailure

\* response.json() raised: except json.JSONDecodeError
DecodeFails(r) == r.body = "malformed"

\* (the status test left out: the error code retried under every status)
ConcurrencyCodeOnly(r) == r.body = "concurrency"

\* response.status_code == 403 and 'error_message' in result
\* and result['error_message'] == 'CONCURRENCY_LIMIT_EXCEEDED'
IsConcurrencyLimit(r) == r.status = 403 /\ r.body = "concurrency"

\* (only server errors taken as failures)
StatusFailedFrom500(r) == r.status >= 500

\* response.status_code != 200
StatusFailed(r) == r.status # 200

\* (the error_message test left out)
NoErrorMessageTest(r) == FALSE

\* 'error_message' in result
HasErrorMessage(r) == r.body \in {"concurrency", "error"}

\* The body of one loop iteration after requests.post: what the response r,
\* received with retry_count = rc, makes of the operation.
HandleResponse(r, rc) ==
    IF IsTransportFailure(r)
    THEN IF RetriesLeft(rc + 1)
         THEN [pc |-> "backoff_sleep", retry_count |-> rc + 1,
               delay |-> Backoff(rc + 1), raised |-> 0]
         ELSE [pc |-> "raised", retry_count |-> rc + 1, delay |-> 0, raised |-> 503]
    ELSE IF DecodeFails(r)
    THEN [pc |-> "raised", retry_count |-> rc, delay |-> 0, raised |-> 500]
    ELSE IF IsConcurrencyLimit(r)
    THEN [pc |-> "backoff_sleep", retry_count |-> rc + 1,
          delay |-> Backoff(rc + 1), raised |-> 0]
    ELSE IF StatusFailed(r)
    THEN [pc |-> "raised", retry_count |-> rc, delay |-> 0, raised |-> r.status]
    ELSE IF HasErrorMessage(r)
    THEN [pc |-> "raised", retry_count |-> rc, delay |-> 0, raised |-> 400]
    ELSE [pc |-> "returned", retry_count |-> rc, delay |-> 0, raised |-> 0]

\* ---- the Face Store and the remote collections ----

\* results returned by one search_faces call (return_result_count caps them)
MaxResults == 1

\* collections known when the service starts, and the outer_ids
\* create_new_faceset draws (f"faceset_{uuid.uuid4().hex[:8]}")
KnownIds == <<"fs_a", "fs_b">>
NewIds == <<"new1", "new2", "new3">>
FacesetIds == {KnownIds[i] : i \in DOMAIN KnownIds} \cup {NewIds[i] : i \in DOMAIN NewIds}
NoFaceset == -1

\* face tokens stored before the service starts, and the tokens detect issues
OldToken == [fs_a |-> "old_a", fs_b |-> "old_b"]
TokenNames == <<"tok1", "tok2", "tok3">>
FaceTokens == {"old_a", "old_b"} \cup {TokenNames[i] : i \in DOMAIN TokenNames}

\* confidences the remote search reports: below, at and above the threshold
Confidences == {89, 90, 95}
\* face counts cached when the service starts: spare capacity, and full
InitCounts == {5, MAX_FACESET_CAPACITY}

\* tokens[face_token] = faceset_id
Put(map, k, v) == {e \in map : e.token # k} \cup {[token |-> k, faceset |-> v]}

\* faceset_id in metadata
HasRecord(md, id) == \E i \in DOMAIN md : md[i].id = id

\* metadata[faceset_id]['face_count'] = new_count
SetCount(md, id, n) ==
    [i \in DOMAIN md |-> IF md[i].id = id THEN [md[i] EXCEPT !.face_count = n] ELSE md[i]]

\* (the capacity test taken as <=)
HasCapacityOrFull(count) == count <= MAX_FACESET_CAPACITY

\* data.get('face_count', 0) < self.MAX_FACESET_CAPACITY
HasCapacity(count) == count < MAX_FACESET_CAPACITY

\* find_available_faceset: the first record with capacity, "none" without one
RECURSIVE FindAvailable(_)
FindAvailable(md) ==
    IF md = <<>> THEN "none"
    ELSE IF HasCapacity(Head(md).face_count) THEN Head(md).id
    ELSE FindAvailable(Tail(md))

\* get_all_stored_faces: every faceset record with the tokens the index
\* holds for it
GetAllStoredFaces(md, tk) ==
    [i \in DOMAIN md |->
        [id |-> md[i].id, stored |-> {e.token : e \in {x \in tk : x.faceset = md[i].id}}]]

\* (the empty facesets searched as well)
EmptyOnesToo(facesets) == facesets

\* if not stored_tokens: continue
Searchable(facesets) == SelectSeq(facesets, LAMBDA f : f.stored # {})

\* (the threshold taken as exclusive)
StrictlyAbove(c) == c > confidence_threshold

\* (the threshold taken ten points lower)
LowerThreshold(c) == c >= confidence_threshold - 10

\* confidence >= self.confidence_threshold
IsMatch(c) == c >= confidence_threshold

Matching(results) == SelectSeq(results, LAMBDA r : IsMatch(r.confidence))

\* (sorted ascending)
RECURSIVE InsertAsc(_, _)
InsertAsc(x, s) ==
    IF s = <<>> THEN <<x>>
    ELSE IF Head(s).confidence <= x.confidence
         THEN <<Head(s)>> \o InsertAsc(x, Tail(s))
         ELSE <<x>> \o s

\* sorted(matches, key=lambda x: x.confidence, reverse=True): stable,
\* x goes behind every entry whose confidence is not lower
RECURSIVE InsertDesc(_, _)
InsertDesc(x, s) ==
    IF s = <<>> THEN <<x>>
    ELSE IF Head(s).confidence >= x.confidence
         THEN <<Head(s)>> \o InsertDesc(x, Tail(s))
         ELSE <<x>> \o s

RECURSIVE SortedDesc(_)
SortedDesc(m) ==
    IF m = <<>> THEN <<>>
    ELSE InsertDesc(m[Len(m)], SortedDesc(SubSeq(m, 1, Len(m) - 1)))

\* what search_faces can return for a faceset holding the tokens stored
SearchResults(stored) ==
    UNION {[1..n -> [confidence : Confidences, face_token : stored]] : n \in 0..MaxResults}

\* the dict verify_face returns; message tells its texts apart
NoResult ==
    [status |-> "none", message |-> "none", is_duplicate |-> FALSE,
     face_token |-> "none", confidence |-> 0, matches |-> <<>>]
\* "Error processing image: ... Please try again."
ErrorResult ==
    [status |-> "error", message |-> "exception", is_duplicate |-> FALSE,
     face_token |-> "none", confidence |-> 0, matches |-> <<>>]
\* the error_message of _validate_and_process_image
InvalidImage ==
    [status |-> "error", message |-> "invalid_image", is_duplicate |-> FALSE,
     face_token |-> "none", confidence |-> 0, matches |-> <<>>]
\* "No face detected in image. ..."
NoFaceDetected ==
    [status |-> "error", message |-> "no_face", is_duplicate |-> FALSE,
     face_token |-> "none", confidence |-> 0, matches |-> <<>>]
DuplicateFound(tok, m) ==
    [status |-> "duplicate_found", message |-> "duplicate", is_duplicate |-> TRUE,
     face_token |-> tok, confidence |-> m[1].confidence, matches |-> m]
Accepted(tok) ==
    [status |-> "success", message |-> "saved", is_duplicate |-> FALSE,
     face_token |-> tok, confidence |-> 0, matches |-> <<>>]

\* a verification call with no request in hand
IdleCall ==
    [pc |-> "idle", face_token |-> "none", matches |-> <<>>,
     faceset_id |-> "none", loaded_tokens |-> {}, loaded_metadata |-> <<>>,
     new_count |-> 0, result |-> NoResult,
     new_faceset |-> "none", added |-> FALSE, saved |-> FALSE,
     refreshed |-> FALSE, remote_calls |-> {}, not_found |-> FALSE,
     all_ok |-> TRUE, offered_past_failure |-> FALSE, qualifying |-> 0,
     searched |-> <<>>,
     detect_raised |-> FALSE, op_failed |-> FALSE, conflict |-> FALSE,
     too_small |-> FALSE]

\* ---- _validate_and_process_image ----

min_dimension == 48
max_dimension == 4096
max_file_size == 2 * 1024 * 1024

\* the quality of the first img.save, those of the while loop, and 20, at
\* which the loop's test quality > 20 ends it
Qualities == {85, 70, 60, 50, 40, 30, 20}

\* image_data: its length, whether Image.open reads it, its img.size,
\* whether img.save can write the resized image, and the length of what
\* img.save writes at each quality
Widths == {min_dimension - 1, min_dimension, max_dimension, max_dimension + 1,
           2 * max_dimension}
Sizes == {max_file_size, max_file_size + 1}
Images ==
    [size : Sizes, readable : BOOLEAN, width : Widths, height : Widths,
     savable : BOOLEAN, encoded : [Qualities -> Sizes]]

\* return None, False, "<error_message>"
Rejected == [is_valid |-> FALSE, size |-> 0, width |-> 0, height |-> 0]
NotValidated == [is_valid |-> FALSE, size |-> -1, width |-> 0, height |-> 0]

\* (and instead of or)
TooSmallBoth(width, height) == width < min_dimension /\ height < min_dimension

\* if width < self.min_dimension or height < self.min_dimension
TooSmall(width, height) == width < min_dimension \/ height < min_dimension

\* if width > self.max_dimension or height > self.max_dimension
TooLarge(width, height) == width > max_dimension \/ height > max_dimension

\* the new size, aspect ratio kept: int(new_width / aspect_ratio) and
\* int(new_height * aspect_ratio) with aspect_ratio = width / height
NewSize(width, height) ==
    IF width > height
    THEN LET new_width == Min(width, max_dimension)
         IN  [width |-> new_width, height |-> (new_width * height) \div width]
    ELSE LET new_height == Min(height, max_dimension)
         IN  [width |-> (new_height * width) \div height, height |-> new_height]

\* while len(image_data) > self.max_file_size and quality > 20: save at
\* quality, quality -= 10; the length of image_data after the loop
RECURSIVE Recompress(_, _, _)
Recompress(img, size, quality) ==
    IF size > max_file_size /\ quality > 20
    THEN Recompress(img, img.encoded[quality], quality - 10)
    ELSE size

\* (the check after the loop left out)
AnySizeAccepted(size) == FALSE

\* if len(image_data) > self.max_file_size, after the loop: "Unable to
\* process image..."
StillTooLarge(size) == size > max_file_size

\* _validate_and_process_image: Rejected, or the image it returns as valid
ValidateAndProcessImage(img) ==
    IF img.size > max_file_size THEN Rejected
    ELSE IF ~img.readable THEN Rejected
    ELSE IF TooSmall(img.width, img.height) THEN Rejected
    ELSE IF TooLarge(img.width, img.height)
    THEN LET new == NewSize(img.width, img.height)
             first == img.encoded[85]
             last == IF first > max_file_size THEN Recompress(img, first, 70)
                     ELSE first
         IN  IF new.width = 0 \/ new.height = 0 \/ ~img.savable THEN Rejected
             ELSE IF StillTooLarge(last) THEN Rejected
             ELSE [is_valid |-> TRUE, size |-> last,
                   width |-> new.width, height |-> new.height]
    ELSE [is_valid |-> TRUE, size |-> img.size,
          width |-> img.width, height |-> img.height]

NoImage ==
    [size |-> 0, readable |-> FALSE, width |-> 0, height |-> 0,
     savable |-> FALSE, encoded |-> [q \in Qualities |-> 0]]

InitNoImage ==
    /\ image = NoImage
    /\ validation = NotValidated

InitEmptyStore ==
    /\ InitNoImage
    /\ metadata = <<>>
    /\ tokens = {}
    /\ remote = [f \in FacesetIds |-> NoFaceset]
    /\ wf = [t \in Tasks |-> IdleCall]
    /\ verifications = 0
    /\ issued = 0
    /\ created = 0


TypeOK ==
    /\ max_requests \in [Limiters -> Nat]
    /\ time_window \in [Limiters -> Nat]
    /\ rate_limiter \in [Tasks -> Limiters]
    /\ \A l \in Limiters : requests[l] \in Seq(0..(time_window[l] + 1))
    /\ pc \in [Tasks -> {"idle", "loop", "acquire_sleep", "backoff_sleep",
                         "returned", "raised"}]
    /\ retry_count \in [Tasks -> 0..max_retries]
    /\ timer \in [Tasks -> Nat]
    /\ response \in [Tasks -> Responses \cup {NoResponse}]
    /\ sent \in [Tasks -> 0..max_retries]
    /\ \A t \in Tasks : delays[t] \in Seq(Nat)
    /\ decode_errors \in [Tasks -> Nat]
    /\ raised \in [Tasks -> Nat]
    /\ calls \in Nat
    /\ \A l \in Limiters : admitLog[l] \in Seq(Nat)
    /\ postLog \in Seq(Nat)
    /\ \A l \in Limiters : waiters[l] \in Seq(Tasks)
    /\ admitted \in Tasks \cup {"none"}
    /\ waited \in BOOLEAN

InitCalls ==
    /\ requests = [l \in Limiters |-> <<>>]
    /\ pc = [t \in Tasks |-> "idle"]
    /\ retry_count = [t \in Tasks |-> 0]
    /\ timer = [t \in Tasks |-> 0]
    /\ response = [t \in Tasks |-> NoResponse]
    /\ sent = [t \in Tasks |-> 0]
    /\ delays = [t \in Tasks |-> <<>>]
    /\ decode_errors = [t \in Tasks |-> 0]
    /\ raised = [t \in Tasks |-> 0]
    /\ calls = 0
    /\ admitLog = [l \in Limiters |-> <<>>]
    /\ postLog = <<>>
    /\ waiters = [l \in Limiters |-> <<>>]
    /\ admitted = "none"
    /\ waited = FALSE

\* The service as the router wires it: face_verifier = FaceVerification() per
\* request, whose FacePlusPlusManager builds its own RateLimiter(10, 1).
Init ==
    /\ max_requests = [l \in Limiters |-> ManagerMaxRequests]
    /\ time_window = [l \in Limiters |-> ManagerTimeWindow]
    /\ rate_limiter = [t \in Tasks |-> t]
    /\ InitCalls
    /\ InitEmptyStore

\* One RateLimiter(SharedRequests, SharedWindow) used by all the callers.
InitLimiter ==
    /\ max_requests = [l \in Limiters |-> SharedRequests]
    /\ time_window = [l \in Limiters |-> SharedWindow]
    /\ rate_limiter = [t \in Tasks |-> "call1"]
    /\ InitCalls
    /\ InitEmptyStore

\* The event loop runs one coroutine at a time: t can be resumed only while
\* no other call is between two suspensions.
Running(t) == pc[t] \in {"loop", "returned", "raised"}
LoopFree(t) == \A u \in Tasks \ {t} : ~Running(u)

\* ---- acquire(), as a step of the limiter l taken by caller t ----

\* the queue after the popleft loop
Expired(l) == Expire(requests[l], time_window[l])

\* if len(self.requests) >= self.max_requests: ... if wait_time > 0:
Full(l) == MustWait(Expired(l), max_requests[l], time_window[l])

\* await asyncio.sleep(wait_time); return await self.acquire()
Suspend(t, l) ==
    /\ requests' = [requests EXCEPT ![l] = Expired(l)]
    /\ timer' = [timer EXCEPT ![t] = WaitTime(Expired(l), time_window[l])]
    /\ waiters' = [waiters EXCEPT ![l] =
           IF \E i \in DOMAIN @ : @[i] = t THEN @ ELSE Append(@, t)]
    /\ pc' = [pc EXCEPT ![t] = "acquire_sleep"]
    /\ admitted' = "none"
    /\ waited' = FALSE
    /\ UNCHANGED <<admitLog, postLog>>

\* (acquire() awaited once, before the while loop: a retry is posted without
\* an admission)
AdmitFirstOnly(t, l) ==
    /\ requests' = [requests EXCEPT ![l] =
           IF retry_count[t] = 0 THEN Append(Expired(l), 0) ELSE @]
    /\ admitLog' = [admitLog EXCEPT ![l] =
           IF retry_count[t] = 0 THEN Append(@, 0) ELSE @]
    /\ waiters' = [waiters EXCEPT ![l] = SelectSeq(@, LAMBDA x : x # t)]
    /\ admitted' = IF retry_count[t] = 0 THEN t ELSE "none"
    /\ waited' = (pc[t] = "acquire_sleep")

\* self.requests.append(now)
Admit(t, l) ==
    /\ requests' = [requests EXCEPT ![l] = Append(Expired(l), 0)]
    /\ admitLog' = [admitLog EXCEPT ![l] = Append(@, 0)]
    /\ waiters' = [waiters EXCEPT ![l] = SelectSeq(@, LAMBDA x : x # t)]
    /\ admitted' = t
    /\ waited' = (pc[t] = "acquire_sleep")

\* ---- the callers of one shared limiter (SpecLimiter) ----

\* t calls acquire(), or is resumed from the sleep inside it
AtAcquireCall(t) ==
    \/ pc[t] = "idle" /\ calls < MaxAcquires
    \/ pc[t] = "acquire_sleep" /\ timer[t] = 0

Entered(t) == IF pc[t] = "idle" THEN calls + 1 ELSE calls

AcquireSuspend(t) ==
    /\ AtAcquireCall(t)
    /\ Full(rate_limiter[t])
    /\ Suspend(t, rate_limiter[t])
    /\ calls' = Entered(t)
    /\ UNCHANGED workflowVars
    /\ UNCHANGED imageVars
    /\ UNCHANGED <<max_requests, time_window, rate_limiter, retry_count,
                   response, sent, delays, decode_errors, raised>>

AcquireAdmit(t) ==
    /\ AtAcquireCall(t)
    /\ ~Full(rate_limiter[t])
    /\ Admit(t, rate_limiter[t])
    /\ calls' = Entered(t)
    /\ pc' = [pc EXCEPT ![t] = "idle"]
    /\ UNCHANGED workflowVars
    /\ UNCHANGED imageVars
    /\ UNCHANGED <<max_requests, time_window, rate_limiter, retry_count, timer,
                   response, sent, delays, decode_errors, raised, postLog>>

\* ---- the operations of the manager (Spec) ----

\* An operation of the manager calls _make_request_with_retry:
\* retry_count = 0, last_error = None
Call(t) ==
    /\ pc[t] = "idle"
    /\ LoopFree(t)
    /\ calls < MaxCalls
    /\ calls' = calls + 1
    /\ pc' = [pc EXCEPT ![t] = "loop"]
    /\ retry_count' = [retry_count EXCEPT ![t] = 0]
    /\ admitted' = "none"
    /\ waited' = FALSE
    /\ UNCHANGED workflowVars
    /\ UNCHANGED imageVars
    /\ UNCHANGED <<max_requests, time_window, rate_limiter, requests, timer,
                   response, sent, delays, decode_errors, raised, admitLog,
                   postLog, waiters>>

\* The call is about to evaluate acquire(): at the top of a loop iteration
\* with retry_count < max_retries, or resumed from acquire's own sleep.
AtAcquire(t) ==
    /\ LoopFree(t)
    /\ \/ pc[t] = "loop"
       \/ pc[t] = "backoff_sleep" /\ timer[t] = 0 /\ RetriesLeft(retry_count[t])
       \/ pc[t] = "acquire_sleep" /\ timer[t] = 0

\* requests.post is issued and its response r handled up to the next sleep,
\* return or raise
Post(t, r) ==
    LET h == HandleResponse(r, retry_count[t])
    IN  /\ postLog' = Append(postLog, 0)
        /\ sent' = [sent EXCEPT ![t] = @ + 1]
        /\ response' = [response EXCEPT ![t] = r]
        /\ decode_errors' = [decode_errors EXCEPT ![t] =
               IF r.body = "malformed" THEN @ + 1 ELSE @]
        /\ pc' = [pc EXCEPT ![t] = h.pc]
        /\ retry_count' = [retry_count EXCEPT ![t] = h.retry_count]
        /\ raised' = [raised EXCEPT ![t] = h.raised]
        /\ delays' = [delays EXCEPT ![t] =
               IF h.pc = "backoff_sleep" THEN Append(@, h.delay) ELSE @]
        /\ timer' = [timer EXCEPT ![t] =
               IF h.pc = "backoff_sleep" THEN h.delay ELSE 0]

\* One loop iteration: await self.rate_limiter.acquire(), which suspends the
\* call while the window of its limiter is full, then the request
Attempt(t) ==
    /\ AtAcquire(t)
    /\ IF Full(rate_limiter[t])
       THEN /\ Suspend(t, rate_limiter[t])
            /\ UNCHANGED <<retry_count, response, sent, delays, decode_errors,
                           raised>>
       ELSE /\ Admit(t, rate_limiter[t])
            /\ \E r \in Responses : Post(t, r)
    /\ UNCHANGED workflowVars
    /\ UNCHANGED imageVars
    /\ UNCHANGED <<max_requests, time_window, rate_limiter, calls>>

\* The while condition fails after the last backoff: "If we've exhausted all
\* retries", HTTPException(503)
Exhausted(t) ==
    /\ pc[t] = "backoff_sleep"
    /\ timer[t] = 0
    /\ ~RetriesLeft(retry_count[t])
    /\ LoopFree(t)
    /\ pc' = [pc EXCEPT ![t] = "raised"]
    /\ raised' = [raised EXCEPT ![t] = 503]
    /\ admitted' = "none"
    /\ waited' = FALSE
    /\ UNCHANGED workflowVars
    /\ UNCHANGED imageVars
    /\ UNCHANGED <<max_requests, time_window, rate_limiter, requests, retry_count,
                   timer, response, sent, delays, decode_errors, calls, admitLog,
                   postLog, waiters>>

\* The operation's caller takes the result or the exception, and runs on to
\* its next suspension
Complete(t) ==
    /\ pc[t] \in {"returned", "raised"}
    /\ pc' = [pc EXCEPT ![t] = "idle"]
    /\ retry_count' = [retry_count EXCEPT ![t] = 0]
    /\ response' = [response EXCEPT ![t] = NoResponse]
    /\ sent' = [sent EXCEPT ![t] = 0]
    /\ delays' = [delays EXCEPT ![t] = <<>>]
    /\ decode_errors' = [decode_errors EXCEPT ![t] = 0]
    /\ raised' = [raised EXCEPT ![t] = 0]
    /\ admitted' = "none"
    /\ waited' = FALSE
    /\ UNCHANGED workflowVars
    /\ UNCHANGED imageVars
    /\ UNCHANGED <<max_requests, time_window, rate_limiter, requests, timer,
                   calls, admitLog, postLog, waiters>>

\* ---- the clock ----

AgeAll(q, w) == [i \in DOMAIN q |-> Older(q[i], w)]
Recent(q, w) == SelectSeq(q, LAMBDA a : a < w)

\* The clock advances by one tick
Tick ==
    /\ requests' = [l \in Limiters |-> AgeAll(requests[l], time_window[l])]
    /\ timer' = [t \in Tasks |-> Max(timer[t] - 1, 0)]
    /\ admitLog' = [l \in Limiters |->
           Recent([i \in DOMAIN admitLog[l] |-> admitLog[l][i] + 1], time_window[l])]
    /\ postLog' = Recent([i \in DOMAIN postLog |-> postLog[i] + 1], ManagerTimeWindow)
    /\ admitted' = "none"
    /\ waited' = FALSE
    /\ UNCHANGED workflowVars
    /\ UNCHANGED imageVars
    /\ UNCHANGED <<max_requests, time_window, rate_limiter, pc, retry_count,
                   response, sent, delays, decode_errors, raised, calls, waiters>>

Next ==
    \/ \E t \in Tasks : Call(t)
    \/ \E t \in Tasks : Attempt(t)
    \/ \E t \in Tasks : Exhausted(t)
    \/ \E t \in Tasks : Complete(t)
    \/ Tick

LimiterNext ==
    \/ \E t \in Tasks : AcquireSuspend(t)
    \/ \E t \in Tasks : AcquireAdmit(t)
    \/ Tick

Spec == Init /\ [][Next]_vars

SpecLimiter == InitLimiter /\ [][LimiterNext]_vars

\* asyncio resumes every coroutine whose sleep is over, and the clock advances
LiveLimiter ==
    /\ SpecLimiter
    /\ WF_vars(Tick)
    /\ \A t \in Tasks : WF_vars(AcquireSuspend(t) \/ AcquireAdmit(t))

\* ---- the verification workflow (SpecVerify) ----

\* The Face Store and the remote collections when the service starts: up to
\* Len(KnownIds) facesets recorded, the first with spare capacity or full,
\* a later one with spare capacity; a faceset recorded alone may be absent
\* remotely, the second may hold no token yet.
InitVerify ==
    /\ max_requests = [l \in Limiters |-> ManagerMaxRequests]
    /\ time_window = [l \in Limiters |-> ManagerTimeWindow]
    /\ rate_limiter = [t \in Tasks |-> t]
    /\ InitCalls
    /\ \E n \in 0..Len(KnownIds) : \E counts \in [1..n -> InitCounts] :
       \E absent, unused \in BOOLEAN :
          /\ \A i \in 2..n : counts[i] < MAX_FACESET_CAPACITY
          /\ absent => n = 1
          /\ metadata = [i \in 1..n |-> [id |-> KnownIds[i], face_count |-> counts[i]]]
          /\ remote = [f \in FacesetIds |->
                IF \E i \in 1..n : KnownIds[i] = f /\ ~(absent /\ i = 1)
                THEN counts[CHOOSE i \in 1..n : KnownIds[i] = f]
                ELSE NoFaceset]
          /\ tokens = {[token |-> OldToken[KnownIds[i]], faceset |-> KnownIds[i]] :
                          i \in {j \in 1..n : ~(unused /\ j = 2)}}
    /\ wf = [t \in Tasks |-> IdleCall]
    /\ verifications = 0
    /\ issued = 0
    /\ created = 0
    /\ InitNoImage

\* what the call was given so far: every remote and Face Store operation
\* succeeded, and no search reported a confidence at or above the threshold
Given(w, good) == [w EXCEPT !.all_ok = @ /\ good]

\* a Face Store read or write, or a remote request of save_face_data, was
\* made: ok tells whether it succeeded
Tried(w, ok) == [Given(w, ok) EXCEPT !.op_failed = @ \/ ~ok]

\* (the error dict of the except clause carrying the token detected)
FailedWithToken(w) ==
    [w EXCEPT !.pc = "done",
              !.result = [ErrorResult EXCEPT !.face_token = w.face_token],
              !.loaded_tokens = {}, !.loaded_metadata = <<>>]

\* the exception reaches verify_face's except clause: status "error"
Failed(w) ==
    [w EXCEPT !.pc = "done", !.result = ErrorResult,
              !.loaded_tokens = {}, !.loaded_metadata = <<>>]

\* get_faceset_detail: the result of the request when it returned one with
\* a face_count, an HTTPException otherwise (a collection absent remotely is
\* answered with an error_message, which _make_request_with_retry raises)
GetFacesetDetail(id, ok) ==
    IF ok /\ remote[id] # NoFaceset
    THEN [raised |-> FALSE, face_count |-> remote[id], error_message |-> FALSE]
    ELSE [raised |-> TRUE, face_count |-> 0, error_message |-> FALSE]

\* if not details or 'error_message' in details
NotUsable(details) == details.error_message

\* (the duplicate recorded, and the return left out)
AfterSearchNoReturn(w, m) ==
    LET sm == SortedDesc(m)
    IN  [w EXCEPT !.pc = "find", !.matches = sm,
                  !.result = IF sm # <<>> THEN DuplicateFound(w.face_token, sm)
                             ELSE w.result]

\* sorted(matches, ...); if matches: ... "duplicate_found"; otherwise
\* save_face_data is entered, up to its first await
AfterSearch(w, m) ==
    LET sm == SortedDesc(m)
    IN  IF sm # <<>>
        THEN [w EXCEPT !.pc = "done", !.matches = sm,
                       !.result = DuplicateFound(w.face_token, sm)]
        ELSE [w EXCEPT !.pc = "find", !.matches = sm]

\* verify_face has returned and the router builds the answer: there is no
\* await between the two, no other call runs before Answered
Returned == \E u \in Tasks : wf[u].pc = "done"

\* an image of the given length and size that Image.open reads and
\* img.save writes below the size limit at every quality
Photo(size, width, height) ==
    [size |-> size, readable |-> TRUE, width |-> width, height |-> height,
     savable |-> TRUE, encoded |-> [q \in Qualities |-> max_file_size]]

\* the images posted to /verify: one side below the minimum, the smallest
\* valid one, one to be resized, one file above the size limit
RequestImages ==
    {Photo(max_file_size, min_dimension - 1, min_dimension),
     Photo(max_file_size, min_dimension, min_dimension),
     Photo(max_file_size, 2 * max_dimension, max_dimension),
     Photo(max_file_size + 1, min_dimension, min_dimension)}

\* POST /verify, served by the first call that is free:
\* _validate_and_process_image; if not is_valid the error dict is returned,
\* otherwise detect_face is awaited
Verify(t) ==
    /\ wf[t].pc = "idle"
    /\ ~Returned
    /\ \A u \in Tasks : wf[u].pc = "idle" => t = "call1" \/ u # "call1"
    /\ verifications < MaxVerifications
    /\ verifications' = verifications + 1
    /\ \E img \in RequestImages :
          LET w == [IdleCall EXCEPT !.too_small = (img.width < min_dimension
                                                \/ img.height < min_dimension)]
          IN  wf' = [wf EXCEPT ![t] =
                        IF ValidateAndProcessImage(img).is_valid
                        THEN [w EXCEPT !.pc = "detect"]
                        ELSE [Given(w, FALSE) EXCEPT !.pc = "done",
                                                     !.result = InvalidImage]]
    /\ UNCHANGED <<metadata, tokens, remote, issued, created>>
    /\ UNCHANGED clientVars
    /\ UNCHANGED imageVars

\* what detect_face returns: the token of the first face, None when the
\* result holds no face, and None as well when _make_request_with_retry
\* raised (except Exception: ... return None)
DetectOutcomes == {"face", "no_faces", "raised"}

\* face_token = await detect_face(processed_image); if not face_token: the
\* no-face dict is returned
Detect(t) ==
    /\ wf[t].pc = "detect"
    /\ ~Returned
    /\ issued < Len(TokenNames)
    /\ \E outcome \in DetectOutcomes :
          IF outcome = "face"
          THEN /\ issued' = issued + 1
               /\ wf' = [wf EXCEPT ![t] =
                            [@ EXCEPT !.pc = "search", !.face_token = TokenNames[issued + 1]]]
          ELSE /\ wf' = [wf EXCEPT ![t] =
                            [Given(@, FALSE) EXCEPT !.pc = "done", !.result = NoFaceDetected,
                                                    !.detect_raised = (outcome = "raised")]]
               /\ UNCHANGED issued
    /\ UNCHANGED <<metadata, tokens, remote, verifications, created>>
    /\ UNCHANGED clientVars
    /\ UNCHANGED imageVars

\* one search_faces: it raises (logged, the faceset skipped), or returns
\* results, of which those at or above the threshold are kept
SearchOutcomes(stored) ==
    {[good |-> FALSE, raised |-> TRUE, qualifying |-> 0, found |-> <<>>]} \cup
    {[good |-> \A i \in DOMAIN r : r[i].confidence < confidence_threshold,
      raised |-> FALSE,
      qualifying |-> Cardinality({i \in DOMAIN r : r[i].confidence >= confidence_threshold}),
      found |-> Matching(r)] : r \in SearchResults(stored)}

\* (the inner try/except left out: a search that raises ends the scan, the
\* matches are lost)
AbortScan(o, r) ==
    [good |-> o.good /\ r.good, skipped |-> o.raised \/ r.skipped,
     offered |-> o.found # <<>> \/ r.offered,
     qualifying |-> o.qualifying + r.qualifying, searched |-> r.searched,
     found |-> IF o.raised \/ r.skipped THEN <<>> ELSE o.found \o r.found]

\* one turn of the loop with outcome o, then the rest of the loop with r:
\* matches.append(...) for what a search returned, except ... continue for
\* a search that raised
Extend(o, r) ==
    [good |-> o.good /\ r.good, skipped |-> o.raised \/ r.skipped,
     offered |-> o.found # <<>> \/ r.offered,
     qualifying |-> o.qualifying + r.qualifying, searched |-> r.searched,
     found |-> o.found \o r.found]

\* for faceset in facesets: every way the loop over the facesets in p can end
RECURSIVE Collected(_)
Collected(p) ==
    IF p = <<>>
    THEN {[good |-> TRUE, skipped |-> FALSE, offered |-> FALSE, qualifying |-> 0,
           searched |-> <<>>, found |-> <<>>]}
    ELSE {[Extend(o, r) EXCEPT !.searched = <<Head(p).id>> \o @] :
             o \in SearchOutcomes(Head(p).stored), r \in Collected(Tail(p))}

\* search_similar_faces: facesets = await get_all_stored_faces(), the empty
\* facesets skipped, one search_faces per faceset (they read nothing of the
\* Face Store), then the matches are sorted and verify_face decides; or
\* reading the Face Store raised
SearchSimilarFaces(t) ==
    /\ wf[t].pc = "search"
    /\ ~Returned
    /\ \/ \E c \in Collected(Searchable(GetAllStoredFaces(metadata, tokens))) :
             wf' = [wf EXCEPT ![t] =
                       AfterSearch([Given(@, c.good) EXCEPT
                                       !.offered_past_failure = c.skipped /\ c.offered,
                                       !.qualifying = c.qualifying,
                                       !.searched = c.searched],
                                   c.found)]
       \/ wf' = [wf EXCEPT ![t] = Failed(Tried(@, FALSE))]
    /\ UNCHANGED <<metadata, tokens, remote, verifications, issued, created>>
    /\ UNCHANGED clientVars
    /\ UNCHANGED imageVars

\* ---- save_face_data ----

\* get_faceset_metadata, get_face_tokens: the content of the file, {} when
\* reading it raised
Loaded(content, empty, ok) == IF ok THEN content ELSE empty

\* faceset_info = await find_available_faceset(); get_faceset_detail or
\* create_new_faceset is awaited next
FindAvailableFaceset(t) ==
    /\ wf[t].pc = "find"
    /\ ~Returned
    /\ \E ok \in BOOLEAN :
          LET id == FindAvailable(Loaded(metadata, <<>>, ok))
              w == [Tried(wf[t], ok) EXCEPT !.searched = <<>>]
          IN  wf' = [wf EXCEPT ![t] =
                        IF id # "none"
                        THEN [w EXCEPT !.pc = "get_detail", !.faceset_id = id]
                        ELSE [w EXCEPT !.pc = "create"]]
    /\ UNCHANGED <<metadata, tokens, remote, verifications, issued, created>>
    /\ UNCHANGED clientVars
    /\ UNCHANGED imageVars

\* details = await get_faceset_detail(faceset_id) for the faceset found
GetDetail(t) ==
    /\ wf[t].pc = "get_detail"
    /\ ~Returned
    /\ \E ok \in BOOLEAN :
          LET details == GetFacesetDetail(wf[t].faceset_id, ok)
              absent == remote[wf[t].faceset_id] = NoFaceset
              w == [Tried(wf[t], ok /\ ~absent) EXCEPT
                       !.remote_calls = @ \cup {"get_detail"},
                       !.not_found = ok /\ absent]
          IN  wf' = [wf EXCEPT ![t] =
                        IF details.raised THEN Failed(w)
                        ELSE IF NotUsable(details)
                        THEN [w EXCEPT !.pc = "create", !.faceset_id = "none"]
                        ELSE [w EXCEPT !.pc = "add"]]
    /\ UNCHANGED <<metadata, tokens, remote, verifications, issued, created>>
    /\ UNCHANGED clientVars
    /\ UNCHANGED imageVars

\* how the create request ends: a result with a faceset_token, the answer
\* that a faceset of that outer_id exists already (an error_message, which
\* _make_request_with_retry raises), or any other failure
CreateOutcomes == {"created", "conflict", "failed"}

\* (one fixed outer_id instead of a uuid)
ReusedOuterId(n) == NewIds[1]

\* new_outer_id = f"faceset_{uuid.uuid4().hex[:8]}"
NewOuterId(n) == NewIds[n + 1]

\* (the manager recording the faceset it created)
RegisteredByManager(md, id) == Append(md, [id |-> id, face_count |-> 0])

\* the faceset records after create_new_faceset created id: the manager
\* holds no DBManager and no path of the store, it returns the outer_id only
MetadataAfterCreate(md, id) == md

\* faceset_id = await create_new_faceset(): the new outer_id, or the
\* HTTPException re-raised
CreateNewFaceset(t) ==
    /\ wf[t].pc = "create"
    /\ ~Returned
    /\ created < Len(NewIds)
    /\ \E outcome \in CreateOutcomes :
          LET w == [Tried(wf[t], outcome = "created") EXCEPT
                       !.remote_calls = @ \cup {"create"},
                       !.conflict = (outcome = "conflict")]
              id == NewOuterId(created)
          IN  IF outcome = "created"
              THEN /\ created' = created + 1
                   /\ remote' = [remote EXCEPT ![id] = 0]
                   /\ metadata' = MetadataAfterCreate(metadata, id)
                   /\ wf' = [wf EXCEPT ![t] =
                                [w EXCEPT !.pc = "add", !.faceset_id = id, !.new_faceset = id]]
              ELSE /\ wf' = [wf EXCEPT ![t] = Failed(w)]
                   /\ UNCHANGED <<metadata, remote, created>>
    /\ UNCHANGED <<tokens, verifications, issued>>
    /\ UNCHANGED clientVars
    /\ UNCHANGED imageVars

\* (the outcome of the add not looked at: save_face_token follows anyway)
AfterAddUnchecked(w, added) == [w EXCEPT !.pc = "load_tokens", !.added = added]

\* if not added: raise HTTPException(...); save_face_token is awaited next
\* (add_face_to_faceset returns True or raises)
AfterAdd(w, added) ==
    IF added THEN [w EXCEPT !.pc = "load_tokens", !.added = TRUE] ELSE Failed(w)

\* added = await add_face_to_faceset(face_token, faceset_id)
AddFace(t) ==
    /\ wf[t].pc = "add"
    /\ ~Returned
    /\ \E ok \in BOOLEAN :
          LET id == wf[t].faceset_id
              added == ok /\ remote[id] # NoFaceset
              w == [Tried(wf[t], added) EXCEPT !.remote_calls = @ \cup {"add"}]
          IN  /\ remote' = IF added THEN [remote EXCEPT ![id] = @ + 1] ELSE remote
              /\ wf' = [wf EXCEPT ![t] = AfterAdd(w, added)]
    /\ UNCHANGED <<metadata, tokens, verifications, issued, created>>
    /\ UNCHANGED clientVars
    /\ UNCHANGED imageVars

\* save_face_token: tokens = await self.get_face_tokens()
LoadTokens(t) ==
    /\ wf[t].pc = "load_tokens"
    /\ ~Returned
    /\ \E ok \in BOOLEAN :
          wf' = [wf EXCEPT ![t] =
                    [Tried(@, ok) EXCEPT !.pc = "write_tokens",
                                         !.loaded_tokens = Loaded(tokens, {}, ok)]]
    /\ UNCHANGED <<metadata, tokens, remote, verifications, issued, created>>
    /\ UNCHANGED clientVars
    /\ UNCHANGED imageVars

\* save_face_token: tokens[face_token] = faceset_id, and the file is written;
\* False (and save_face_data raises) when writing raised
WriteTokens(t) ==
    /\ wf[t].pc = "write_tokens"
    /\ ~Returned
    /\ \E ok \in BOOLEAN :
          IF ok
          THEN /\ tokens' = Put(wf[t].loaded_tokens, wf[t].face_token, wf[t].faceset_id)
               /\ wf' = [wf EXCEPT ![t] =
                            [@ EXCEPT !.pc = "refresh", !.saved = TRUE, !.loaded_tokens = {}]]
          ELSE /\ wf' = [wf EXCEPT ![t] = Failed(Tried(@, FALSE))]
               /\ UNCHANGED tokens
    /\ UNCHANGED <<metadata, remote, verifications, issued, created>>
    /\ UNCHANGED clientVars
    /\ UNCHANGED imageVars

\* details = await get_faceset_detail(faceset_id) after the insertion
RefreshDetail(t) ==
    /\ wf[t].pc = "refresh"
    /\ ~Returned
    /\ \E ok \in BOOLEAN :
          LET details == GetFacesetDetail(wf[t].faceset_id, ok)
              absent == remote[wf[t].faceset_id] = NoFaceset
              w == [Tried(wf[t], ok /\ ~absent) EXCEPT
                       !.remote_calls = @ \cup {"get_detail"}]
          IN  wf' = [wf EXCEPT ![t] =
                        IF details.raised THEN Failed(w)
                        ELSE [w EXCEPT !.pc = "load_metadata",
                                       !.new_count = details.face_count]]
    /\ UNCHANGED <<metadata, tokens, remote, verifications, issued, created>>
    /\ UNCHANGED clientVars
    /\ UNCHANGED imageVars

\* update_faceset_count: metadata = await self.get_faceset_metadata(); without
\* a record of faceset_id it returns False, which save_face_data does not
\* look at: return True, and verify_face returns "success"
LoadMetadata(t) ==
    /\ wf[t].pc = "load_metadata"
    /\ ~Returned
    /\ \E ok \in BOOLEAN :
          LET md == Loaded(metadata, <<>>, ok)
              w == Tried(wf[t], ok)
          IN  wf' = [wf EXCEPT ![t] =
                        IF HasRecord(md, wf[t].faceset_id)
                        THEN [w EXCEPT !.pc = "write_metadata", !.loaded_metadata = md]
                        ELSE [w EXCEPT !.pc = "done", !.result = Accepted(wf[t].face_token)]]
    /\ UNCHANGED <<metadata, tokens, remote, verifications, issued, created>>
    /\ UNCHANGED clientVars
    /\ UNCHANGED imageVars

\* update_faceset_count: the count is set and save_faceset_metadata writes
\* the file, or fails; save_face_data returns True either way
WriteMetadata(t) ==
    /\ wf[t].pc = "write_metadata"
    /\ ~Returned
    /\ \E ok \in BOOLEAN :
          /\ metadata' = IF ok
                         THEN SetCount(wf[t].loaded_metadata, wf[t].faceset_id, wf[t].new_count)
                         ELSE metadata
          /\ wf' = [wf EXCEPT ![t] =
                       [Tried(@, ok) EXCEPT !.pc = "done", !.refreshed = ok,
                                            !.loaded_metadata = <<>>,
                                            !.result = Accepted(wf[t].face_token)]]
    /\ UNCHANGED <<tokens, remote, verifications, issued, created>>
    /\ UNCHANGED clientVars
    /\ UNCHANGED imageVars

\* the call is over and holds no request; of its commit it is remembered
\* which faceset's cached count it wrote, if it returned "success" having
\* written one
Finished(w) ==
    LET wrote == w.result.status = "success" /\ w.refreshed
    IN  [IdleCall EXCEPT !.faceset_id = IF wrote THEN w.faceset_id ELSE "none",
                         !.refreshed = wrote]

\* the router answers the request
Answered(t) ==
    /\ wf[t].pc = "done"
    /\ wf' = [wf EXCEPT ![t] = Finished(wf[t])]
    /\ UNCHANGED <<metadata, tokens, remote, verifications, issued, created>>
    /\ UNCHANGED clientVars
    /\ UNCHANGED imageVars

VerifyNext ==
    \/ \E t \in Tasks : Verify(t)
    \/ \E t \in Tasks : Detect(t)
    \/ \E t \in Tasks : SearchSimilarFaces(t)
    \/ \E t \in Tasks : FindAvailableFaceset(t)
    \/ \E t \in Tasks : GetDetail(t)
    \/ \E t \in Tasks : CreateNewFaceset(t)
    \/ \E t \in Tasks : AddFace(t)
    \/ \E t \in Tasks : LoadTokens(t)
    \/ \E t \in Tasks : WriteTokens(t)
    \/ \E t \in Tasks : RefreshDetail(t)
    \/ \E t \in Tasks : LoadMetadata(t)
    \/ \E t \in Tasks : WriteMetadata(t)
    \/ \E t \in Tasks : Answered(t)

SpecVerify == InitVerify /\ [][VerifyNext]_vars

TypeOKVerify ==
    /\ \A i \in DOMAIN metadata : metadata[i].id \in FacesetIds /\ metadata[i].face_count \in Nat
    /\ tokens \subseteq [token : FaceTokens, faceset : FacesetIds]
    /\ remote \in [FacesetIds -> Nat \cup {NoFaceset}]
    /\ \A t \in Tasks :
          /\ wf[t].pc \in {"idle", "detect", "search", "find",
                           "get_detail", "create", "add", "load_tokens",
                           "write_tokens", "refresh", "load_metadata",
                           "write_metadata", "done"}
          /\ wf[t].face_token \in FaceTokens \cup {"none"}
          /\ wf[t].faceset_id \in FacesetIds \cup {"none"}
          /\ wf[t].result.status \in {"none", "error", "duplicate_found", "success"}
    /\ verifications \in 0..MaxVerifications
    /\ issued \in 0..Len(TokenNames)
    /\ created \in 0..Len(NewIds)

\* ---- image validation on its own (SpecImage) ----

InitImage ==
    /\ max_requests = [l \in Limiters |-> ManagerMaxRequests]
    /\ time_window = [l \in Limiters |-> ManagerTimeWindow]
    /\ rate_limiter = [t \in Tasks |-> t]
    /\ InitCalls
    /\ metadata = <<>>
    /\ tokens = {}
    /\ remote = [f \in FacesetIds |-> NoFaceset]
    /\ wf = [t \in Tasks |-> IdleCall]
    /\ verifications = 0
    /\ issued = 0
    /\ created = 0
    /\ image \in Images
    /\ validation = NotValidated

\* processed_image, is_valid, error_message =
\*     self._validate_and_process_image(image_data)
ValidateImage ==
    /\ validation = NotValidated
    /\ validation' = ValidateAndProcessImage(image)
    /\ UNCHANGED image
    /\ UNCHANGED clientVars
    /\ UNCHANGED workflowVars

ImageNext == ValidateImage

SpecImage == InitImage /\ [][ImageNext]_vars

\* ---- the claims ----

\* C1: a RateLimiter(N, T) admits no more than N calls within any time
\* interval of length T, whatever the interleaving of its callers; stated for
\* the half-open interval of the last T ticks, which admitLog holds.
C1_AtMostNPerWindow ==
    \A l \in Limiters : Len(admitLog[l]) <= max_requests[l]

\* C2: all remote requests of all concurrently running verification calls go
\* through one shared rate budget: the limiter that admits a call has counted
\* every request the process posted within the window, and the process posts
\* at most N = 10 requests within any T = 1 second.
C2_OneSharedBudget ==
    /\ \A t \in Tasks : Len(admitLog[rate_limiter[t]]) = Len(postLog)
    /\ Len(postLog) <= ManagerMaxRequests

\* C3: a call of acquire() that finds the window full is only delayed: while
\* the clock advances and finitely many calls compete, it is eventually admitted.
C3_EventuallyAdmitted ==
    \A t \in Tasks : (pc[t] = "acquire_sleep") ~> (admitted = t /\ waited)

\* a call that had been suspended in acquire() has just been admitted
C3_Witness == admitted # "none" /\ waited

\* C4: admission is FIFO: a call is admitted only when no call that invoked
\* acquire() on the same limiter before it is still waiting.
C4_FifoAdmission ==
    [][admitted' # "none" =>
          LET w == waiters[rate_limiter[admitted']]
          IN  w = <<>> \/ Head(w) = admitted']_vars

\* C5: when every attempt of an operation is answered with the concurrency
\* signal or a transport failure, the failure is surfaced after max_retries
\* retries, that is max_retries + 1 requests, and never more are issued.
C5_InitialPlusMaxRetries ==
    \A t \in Tasks :
        /\ sent[t] <= max_retries + 1
        /\ (pc[t] = "raised"
               /\ response[t] \in {TransportFailure,
                                   [status |-> 403, body |-> "concurrency"]})
              => sent[t] = max_retries + 1

\* C6: the i-th backoff delay of an operation is base_delay * 2^(i-1):
\* base_delay, 2 * base_delay, 4 * base_delay.
C6_DelayDoublesFromBase ==
    \A t \in Tasks : \A i \in DOMAIN delays[t] :
        delays[t][i] = base_delay * Pow2(i - 1)

\* C7 as claimed: a response carrying the concurrency error code is retried
\* while the ceiling is not reached, whatever its HTTP status.
C7_RetriedWhateverStatus ==
    \A t \in Tasks :
        (response[t].body = "concurrency" /\ sent[t] < max_retries)
            => pc[t] \in {"backoff_sleep", "acquire_sleep"}

\* C7 as amended: the concurrency error code is retried (while fewer than
\* max_retries requests were sent) only under HTTP status 403; every other
\* response with a body-level error message, the concurrency code under
\* another status included, is fatal at once.
C7_RetriedOnlyUnder403 ==
    \A t \in Tasks :
        /\ (response[t] = [status |-> 403, body |-> "concurrency"]
               /\ sent[t] < max_retries)
              => (pc[t] \in {"backoff_sleep", "acquire_sleep"} /\ raised[t] = 0)
        /\ (response[t].body \in {"concurrency", "error"}
               /\ response[t] # [status |-> 403, body |-> "concurrency"])
              => (pc[t] = "raised" /\ raised[t] # 0)

\* a 403 concurrency response is being retried, and the code under another
\* status has failed another operation
C7_Witness ==
    /\ \E t \in Tasks :
          /\ response[t] = [status |-> 403, body |-> "concurrency"]
          /\ pc[t] = "backoff_sleep" /\ sent[t] < max_retries
    /\ \E t \in Tasks :
          /\ response[t].body = "concurrency" /\ response[t].status # 403
          /\ pc[t] = "raised"

\* C8 as claimed: a response with a non-200 status that is not the
\* concurrency signal fails the operation at once, and the error carries the
\* status of the response.
C8_CarriesResponseStatus ==
    \A t \in Tasks :
        (response[t].status \in Statuses \ {200} /\ response[t].body # "concurrency")
            => (pc[t] = "raised" /\ raised[t] = response[t].status)

\* C8 as amended: a non-200 response that is not the 403 concurrency signal
\* fails the operation at once; the error carries the status of the response
\* when the body is JSON, and 500 when the body is malformed.
C8_StatusOrDecodeError ==
    \A t \in Tasks :
        (response[t].status \in Statuses \ {200}
            /\ response[t] # [status |-> 403, body |-> "concurrency"])
            => /\ pc[t] = "raised"
               /\ raised[t] = IF response[t].body = "malformed"
                              THEN 500 ELSE response[t].status

\* a non-200 JSON response has failed an operation with its own status
C8_Witness ==
    \E t \in Tasks :
        /\ response[t].status \in Statuses \ {200}
        /\ response[t].body \in {"result", "error"}
        /\ pc[t] = "raised" /\ raised[t] = response[t].status

\* C9 as claimed: a malformed response is retried exactly once: the
\* operation fails on a malformed response only when it is the second one.
C9_MalformedRetriedOnce ==
    \A t \in Tasks :
        /\ decode_errors[t] <= 2
        /\ (response[t].body = "malformed" /\ pc[t] = "raised")
              => decode_errors[t] = 2

\* C9 as amended: a malformed response is never retried: the first one fails
\* the operation at once, with status 500.
C9_MalformedFatalAtOnce ==
    \A t \in Tasks :
        /\ decode_errors[t] <= 1
        /\ response[t].body = "malformed"
              => (pc[t] = "raised" /\ raised[t] = 500 /\ decode_errors[t] = 1)

\* a malformed response has failed an operation
C9_Witness ==
    \E t \in Tasks : response[t].body = "malformed" /\ pc[t] = "raised"

\* C10: an operation returns a result only from an attempt answered with
\* HTTP 200 and no body-level error; when the concurrency signal answered
\* the last attempt the loop allows, the operation ends raising 503.
C10_ResultOnlyFrom200 ==
    \A t \in Tasks :
        /\ pc[t] = "returned"
              => response[t] = [status |-> 200, body |-> "result"]
        /\ (response[t] = [status |-> 403, body |-> "concurrency"]
               /\ retry_count[t] >= max_retries)
              => /\ pc[t] \in {"backoff_sleep", "raised"}
                 /\ pc[t] = "raised" => raised[t] = 503

\* the concurrency signal persisted and the operation raised 503
C10_Witness ==
    \E t \in Tasks :
        /\ response[t] = [status |-> 403, body |-> "concurrency"]
        /\ pc[t] = "raised" /\ raised[t] = 503

\* C11: the allocator never picks an existing faceset whose cached count is
\* at or above MAX_FACESET_CAPACITY: whenever find_available_faceset returns
\* a faceset, the record it read for it has face_count below the capacity.
C11_TargetHasCapacity ==
    [][\A t \in Tasks :
          (wf[t].pc = "find" /\ wf'[t].pc = "get_detail")
              => \E i \in DOMAIN metadata :
                    /\ metadata[i].id = wf'[t].faceset_id
                    /\ metadata[i].face_count < MAX_FACESET_CAPACITY]_vars

\* a full faceset was passed over and the next one picked
C11_Witness ==
    \E t \in Tasks :
        /\ wf[t].pc = "get_detail"
        /\ wf[t].faceset_id = "fs_b"
        /\ Len(metadata) = 2
        /\ metadata[1].face_count >= MAX_FACESET_CAPACITY

\* C12: a faceset the allocator has just created is registered in the Face
\* Store with count 0: when the allocation ends with a new faceset (the
\* insertion is about to be requested), the metadata holds a record of it
\* with face_count 0.
C12_NewFacesetRegistered ==
    \A t \in Tasks :
        (wf[t].pc = "add" /\ wf[t].new_faceset # "none")
            => \E i \in DOMAIN metadata :
                  metadata[i] = [id |-> wf[t].new_faceset, face_count |-> 0]

\* C13: when the Face Store holds an under-capacity faceset and get-detail
\* answers that the collection does not exist remotely, the call is not
\* failed: the allocator goes on to create a new faceset.
C13_AbsentRemotelyRecovered ==
    \A t \in Tasks :
        wf[t].not_found
            => /\ wf[t].result.status # "error"
               /\ wf[t].pc = "create" \/ wf[t].new_faceset # "none"

\* C14: when an insertion has succeeded and the call ends accepted, the
\* cached count of the faceset is the face count get-detail reported after
\* the insertion, also for a faceset created during the call.
C14_CountRefreshed ==
    [][\A t \in Tasks :
          (wf[t].pc # "done" /\ wf'[t].result.status = "success")
              => \E i \in DOMAIN metadata' :
                    /\ metadata'[i].id = wf'[t].faceset_id
                    /\ metadata'[i].face_count = wf'[t].new_count]_vars

\* C15: a call ends accepted (status "success") only if the three steps of
\* the commit completed: the face was added remotely, the refreshed count
\* was written into the faceset's record, and the token was written into
\* the FaceIndex.
C15_AcceptedOnlyIfAllSteps ==
    \A t \in Tasks :
        wf[t].result.status = "success"
            => wf[t].added /\ wf[t].refreshed /\ wf[t].saved

\* C16: when the commit of a call is reported failed, the FaceIndex holds no
\* entry for the call's face token and the call wrote no faceset count.
C16_NoPartialCommit ==
    \A t \in Tasks :
        (wf[t].result.status = "error" /\ wf[t].face_token # "none")
            => /\ ~\E e \in tokens : e.token = wf[t].face_token
               /\ ~wf[t].refreshed

\* C17: the FaceIndex is append-only: no step of any call removes or changes
\* an entry it holds, and a token has one faceset.
C17_FaceIndexAppendOnly ==
    [][/\ \A e \in tokens : e \in tokens'
       /\ \A e1, e2 \in tokens' : e1.token = e2.token => e1 = e2]_vars

\* C18: whenever the search has collected a match at or above the threshold,
\* the call ends in duplicate_found; the matches reported are those
\* collected, sorted by confidence descending, and the confidence reported
\* is that of the first, the maximum over the matches.
C18_BestMatchReported ==
    \A t \in Tasks :
        LET w == wf[t]
        IN  /\ w.matches # <<>> => (w.pc = "done" /\ w.result.status = "duplicate_found")
            /\ w.result.status = "duplicate_found"
                  => /\ w.result.matches = w.matches
                     /\ w.matches # <<>>
                     /\ w.result.confidence = w.matches[1].confidence
                     /\ \A i \in DOMAIN w.matches :
                           /\ w.matches[i].confidence <= w.result.confidence
                           /\ w.matches[i].confidence >= confidence_threshold
                     /\ \A i, j \in DOMAIN w.matches :
                           i < j => w.matches[i].confidence >= w.matches[j].confidence

\* two matches were collected, and the one of the faceset searched last is
\* reported, having the higher confidence
C18_Witness ==
    \E t \in Tasks :
        /\ wf[t].result.status = "duplicate_found"
        /\ Len(wf[t].matches) = 2
        /\ wf[t].matches[1].face_token = "old_b"
        /\ wf[t].matches[2].face_token = "old_a"
        /\ wf[t].result.confidence > wf[t].matches[2].confidence

\* C19: a call that ends in duplicate_found has issued no create-collection,
\* get-detail or add-to-collection request, has chosen no faceset, and has
\* written neither the FaceIndex nor a faceset count.
C19_DuplicateCommitsNothing ==
    \A t \in Tasks :
        wf[t].result.status = "duplicate_found"
            => /\ wf[t].remote_calls = {}
               /\ wf[t].faceset_id = "none" /\ wf[t].new_faceset = "none"
               /\ ~wf[t].added /\ ~wf[t].saved /\ ~wf[t].refreshed
               /\ ~\E e \in tokens : e.token = wf[t].face_token

\* a duplicate was reported against a stored face
C19_Witness ==
    \E t \in Tasks :
        /\ wf[t].result.status = "duplicate_found"
        /\ wf[t].pc = "done"
        /\ wf[t].result.confidence >= confidence_threshold
        /\ metadata # <<>> /\ tokens # {}

C21_ScanContinuesPastFailure ==
    \A t \in Tasks :
        wf[t].offered_past_failure
            => /\ wf[t].pc = "done"
               /\ wf[t].result.status = "duplicate_found"
               /\ wf[t].matches # <<>>

\* the search of fs_a raised, fs_b was searched after it and its match is
\* the duplicate reported
C21_Witness ==
    \E t \in Tasks :
        /\ wf[t].offered_past_failure
        /\ wf[t].result.status = "duplicate_found"
        /\ Len(wf[t].matches) = 1
        /\ wf[t].matches[1].face_token = "old_b"

\* C22: the no-face answer is given only when the detect request returned
\* a result holding no face; a detect request that raised is answered as
\* an error other than the no-face one.
C22_NoFaceOnlyWhenDetectSucceeded ==
    \A t \in Tasks :
        /\ wf[t].result.message = "no_face" => ~wf[t].detect_raised
        /\ wf[t].detect_raised => (wf[t].result.status = "error"
                                     /\ wf[t].result.message # "no_face")

\* C23: a call during which a Face Store read or write, or a remote request
\* of the allocate/commit path, failed ends with status error, never with
\* success.
C23_NoSilentSuccess ==
    \A t \in Tasks :
        (wf[t].pc = "done" /\ wf[t].op_failed) => wf[t].result.status = "error"

\* C24: a create request answered "exists already" counts as created:
\* create_new_faceset returns the identifier, the allocation goes on and the
\* call does not fail because of it.
C24_ConflictIsSuccess ==
    \A t \in Tasks :
        wf[t].conflict => /\ wf[t].new_faceset # "none"
                          /\ wf[t].faceset_id = wf[t].new_faceset
                          /\ "add" \in wf[t].remote_calls \/ wf[t].pc = "add"

\* C25: the faceset the allocator picks has the lowest count among the
\* records below MAX_FACESET_CAPACITY: no other record below capacity has
\* a strictly lower count.
C25_LowestCountPicked ==
    [][\A t \in Tasks :
          (wf[t].pc = "find" /\ wf'[t].pc = "get_detail")
              => \A i, j \in DOMAIN metadata :
                    (metadata[i].id = wf'[t].faceset_id
                        /\ metadata[j].face_count < MAX_FACESET_CAPACITY)
                    => metadata[i].face_count <= metadata[j].face_count]_vars

\* C26: with every record of the Face Store at MAX_FACESET_CAPACITY the
\* allocation goes to create_new_faceset and not to a full faceset, and the
\* identifier created is none of the store's, none created before and not
\* the one another call was given.
C26_FullStoreGetsNewFaceset ==
    [][\A t \in Tasks :
          LET full == \A i \in DOMAIN metadata :
                         metadata[i].face_count = MAX_FACESET_CAPACITY
          IN  /\ (full /\ wf[t].pc = "find" /\ wf'[t].pc # "find")
                    => wf'[t].pc = "create"
              /\ (full /\ wf[t].pc = "create" /\ wf'[t].new_faceset # "none")
                    => /\ \A i \in DOMAIN metadata : metadata[i].id # wf'[t].new_faceset
                       /\ remote[wf'[t].new_faceset] = NoFaceset
                       /\ \A u \in Tasks \ {t} : wf[u].new_faceset # wf'[t].new_faceset]_vars

\* two calls allocated from the same store, fs_a full, and were given two
\* facesets
C26_Witness ==
    /\ Len(metadata) = 1
    /\ metadata[1].face_count = MAX_FACESET_CAPACITY
    /\ wf["call1"].new_faceset # "none"
    /\ wf["call2"].new_faceset # "none"
    /\ wf["call1"].new_faceset # wf["call2"].new_faceset

C28_TooSmallRejectedLocally ==
    [][\A t \in Tasks :
          wf'[t].too_small
              => /\ wf'[t].pc = "done"
                 /\ wf'[t].result = InvalidImage
                 /\ wf'[t].remote_calls = {}
                 /\ wf'[t].face_token = "none"
                 /\ wf[t].pc = "idle"
                       => /\ metadata' = metadata /\ tokens' = tokens
                          /\ remote' = remote /\ issued' = issued
                          /\ requests' = requests /\ sent' = sent]_vars

\* the second request carried an image with a side of 47 and was rejected,
\* with tokens in the store
C28_Witness ==
    \E t \in Tasks :
        /\ wf[t].too_small
        /\ wf[t].pc = "done"
        /\ verifications = 2
        /\ tokens # {}

\* C29: an image above max_dimension on a side or above max_file_size is
\* either rejected or returned with at most max_file_size bytes and both
\* sides at most max_dimension.
C29_OversizeReducedOrRejected ==
    (validation # NotValidated
        /\ (TooLarge(image.width, image.height) \/ image.size > max_file_size)
        /\ validation.is_valid)
    => /\ validation.size <= max_file_size
       /\ validation.width <= max_dimension
       /\ validation.height <= max_dimension

\* an image of twice the maximum width was resized, and only the save at
\* the lowest quality got under the size limit
C29_Witness ==
    /\ validation.is_valid
    /\ image.width = 2 * max_dimension
    /\ validation.width = max_dimension
    /\ image.encoded[40] > max_file_size
    /\ image.encoded[85] > max_file_size
    /\ image.encoded[70] > max_file_size
    /\ image.encoded[60] > max_file_size
    /\ image.encoded[50] > max_file_size
    /\ validation.size = image.encoded[30]

\* C30: when a call is accepted while another call, under way at the same
\* time, has written its token to the FaceIndex, the FaceIndex holds both
\* tokens: the write of the one did not discard the mapping of the other.
C30_BothTokensKept ==
    \A t, u \in Tasks :
        (t # u /\ wf[t].result.status = "success" /\ wf[u].saved)
            => /\ \E e \in tokens : e.token = wf[t].face_token
               /\ \E e \in tokens : e.token = wf[u].face_token

\* C31: two calls that chose the same faceset and both committed to it: once
\* both commits are complete (each returned "success" having written the
\* count), the cached face_count of that faceset equals the remote count,
\* however their add, get-detail and count-write steps interleaved.
CachedCount(id) ==
    IF HasRecord(metadata, id)
    THEN LET i == CHOOSE j \in DOMAIN metadata : metadata[j].id = id
         IN  metadata[i].face_count
    ELSE NoFaceset

C31_CountMatchesAfterBothCommits ==
    \A t \in Tasks : \A u \in Tasks \ {t} :
        (/\ wf[t].pc = "done" /\ wf[t].result.status = "success" /\ wf[t].refreshed
         /\ wf[u].pc = "idle" /\ wf[u].refreshed
         /\ wf[u].faceset_id = wf[t].faceset_id)
        => CachedCount(wf[t].faceset_id) = remote[wf[t].faceset_id]

\* C32: a commit runs in the order remote add, then remote get-detail with
\* the write of the refreshed count, then the recording of the FaceIndex
\* mapping: a call that has written its mapping has added the face and
\* written the refreshed count before.
C32_MappingWrittenLast ==
    \A t \in Tasks : wf[t].saved => wf[t].added /\ wf[t].refreshed

SearchesOf(t, id) == Cardinality({i \in DOMAIN wf[t].searched : wf[t].searched[i] = id})

HoldsToken(id) == HasRecord(metadata, id) /\ \E e \in tokens : e.faceset = id

C34_OneSearchPerStockedFaceset ==
    [][\A t \in Tasks :
          (wf[t].pc = "search" /\ wf'[t].pc # "search" /\ wf'[t].result.status # "error")
          => \A id \in FacesetIds :
                SearchesOf(t, id)' = IF HoldsToken(id) THEN 1 ELSE 0]_vars

C34_Witness ==
    \E t \in Tasks :
        /\ wf[t].pc = "find"
        /\ wf[t].searched = <<"fs_a">>
        /\ HasRecord(metadata, "fs_b")
        /\ ~HoldsToken("fs_b")

\* C35: a resized image still above the size limit is saved again at
\* quality 70, 60, 50, 40, 30 and 20 in that order, the first output at or
\* below the limit being the one returned; it is rejected only when the
\* output at quality 20 is above the limit too.
C35_RecompressedDownToQuality20 ==
    LET ladder == <<70, 60, 50, 40, 30, 20>>
        new == NewSize(image.width, image.height)
        recompressed ==
            /\ image.size <= max_file_size /\ image.readable /\ image.savable
            /\ ~TooSmall(image.width, image.height)
            /\ TooLarge(image.width, image.height)
            /\ new.width > 0 /\ new.height > 0
            /\ image.encoded[85] > max_file_size
        under == {i \in DOMAIN ladder : image.encoded[ladder[i]] <= max_file_size}
    IN  (validation # NotValidated /\ recompressed)
        => IF under = {}
           THEN ~validation.is_valid
           ELSE /\ validation.is_valid
                /\ \E i \in under :
                      /\ \A j \in under : i <= j
                      /\ validation.size = image.encoded[ladder[i]]

\* C36: the timestamp queue of a rate limiter is ordered from the oldest to
\* the newest timestamp and never holds more than max_requests of them,
\* however the callers suspended in acquire() interleave.
C36_QueueOrderedAndBounded ==
    \A l \in Limiters :
        /\ Len(requests[l]) <= max_requests[l]
        /\ \A i, j \in DOMAIN requests[l] : i < j => requests[l][i] >= requests[l][j]

\* C37: every request attempt of _make_request_with_retry, retries
\* included, follows an admission of its own by the rate limiter: a request
\* is posted only in the step in which acquire() admitted the call and
\* appended its timestamp, and an admission is used by exactly one request,
\* so the requests issued never exceed the completed acquire() calls.
C37_EachRequestAdmitted ==
    [][\A t \in Tasks :
          LET l == rate_limiter[t]
          IN  /\ sent'[t] = sent[t] + 1
                 => /\ admitted' = t
                    /\ requests'[l] = Append(Expired(l), 0)
                    /\ Len(postLog') = Len(postLog) + 1
              /\ Len(postLog') > Len(postLog) /\ admitted' = t
                 => sent'[t] = sent[t] + 1]_vars

C37_Witness ==
    \E t \in Tasks :
        /\ sent[t] = max_retries
        /\ admitted = t
        /\ requests[rate_limiter[t]] # <<>>
        /\ requests[rate_limiter[t]][Len(requests[rate_limiter[t]])] = 0

\* C38: verify_face is total: a call ends only by returning, with exactly
\* one outcome whose status is "error", "duplicate_found" or "success";
\* is_duplicate is true and the confidence is at or above the threshold
\* exactly in "duplicate_found"; and the "error" outcome that an exception
\* caused carries no face token.
C38_VerifyFaceTotal ==
    [][\A t \in Tasks :
          LET r == wf'[t].result
          IN  /\ (wf[t].pc # "idle" /\ wf'[t].pc = "idle") => wf[t].pc = "done"
              /\ wf'[t].pc # "done" => r.status = "none"
              /\ wf'[t].pc = "done" =>
                    /\ r.status \in {"error", "duplicate_found", "success"}
                    /\ r.is_duplicate <=> r.status = "duplicate_found"
                    /\ r.confidence >= confidence_threshold <=> r.status = "duplicate_found"
                    /\ r.message = "exception" => r.face_token = "none"]_vars

C38_Witness ==
    \E t \in Tasks :
        /\ wf[t].pc = "done"
        /\ wf[t].result.message = "exception"
        /\ wf[t].face_token # "none"
        /\ wf[t].result.face_token = "none"
        /\ wf[t].saved

\* C39: every FaceIndex entry token -> faceset_id the service writes follows
\* a successful remote add of that token into that faceset: the index
\* changes only when a call that added its face writes its own mapping, and
\* whatever else the written index holds was read from the index before.
C39_IndexedAfterRemoteAdd ==
    [][/\ \A t \in Tasks : wf'[t].loaded_tokens \subseteq wf[t].loaded_tokens \cup tokens
       /\ tokens' # tokens =>
             \E t \in Tasks :
                /\ wf[t].pc = "write_tokens" /\ wf'[t].saved
                /\ wf[t].added /\ "add" \in wf[t].remote_calls
                /\ remote[wf[t].faceset_id] > 0
                /\ [token |-> wf[t].face_token, faceset |-> wf[t].faceset_id] \in tokens'
                /\ \A e \in tokens' :
                      e.token = wf[t].face_token \/ e \in wf[t].loaded_tokens]_vars

C39_Witness ==
    \E t \in Tasks :
        /\ wf[t].saved /\ wf[t].added
        /\ [token |-> wf[t].face_token, faceset |-> wf[t].faceset_id] \in tokens
        /\ remote[wf[t].faceset_id] > 0
        /\ \E e \in tokens : e.token # wf[t].face_token
====
